---- MODULE Spec2Model ----
(* Model of agent.py: the pytest-file generator (extract signatures,      *)
(* remote generation with sanitizing, or fallback templates, write file). *)
(*                                                                        *)
(* Text is a sequence of lexical units (strings).  A function name is a   *)
(* sequence of one-letter units so that str.lower() can be computed; the  *)
(* literals of the f-strings are single units.  The marker               *)
(* "import pytest" is the two units "import " and "pytest".              *)
EXTENDS Integers, Sequences, FiniteSets, TLC

\* ---------------------------------------------------------------- bounds
MaxBody == 2      \* top-level statements in a source file (SpecFn)
MaxText == 4      \* units in a remote response text (Spec)

\* ------------------------------------------------------- sequence helpers
RECURSIVE Concat(_)
Concat(ss) == IF ss = <<>> THEN <<>> ELSE Head(ss) \o Concat(Tail(ss))

SeqsUpTo(S, n) == UNION {[1..k -> S] : k \in 0..n}

IsPrefixOf(p, s) == Len(p) <= Len(s) /\ SubSeq(s, 1, Len(p)) = p

\* ------------------------------------------------------------- str.lower
LowerChar(c) ==
    CASE c = "A" -> "a" [] c = "B" -> "b" [] c = "C" -> "c" [] c = "D" -> "d"
      [] c = "E" -> "e" [] c = "F" -> "f" [] c = "G" -> "g" [] c = "H" -> "h"
      [] c = "I" -> "i" [] c = "J" -> "j" [] c = "K" -> "k" [] c = "L" -> "l"
      [] c = "M" -> "m" [] c = "N" -> "n" [] c = "O" -> "o" [] c = "P" -> "p"
      [] c = "Q" -> "q" [] c = "R" -> "r" [] c = "S" -> "s" [] c = "T" -> "t"
      [] c = "U" -> "u" [] c = "V" -> "v" [] c = "W" -> "w" [] c = "X" -> "x"
      [] c = "Y" -> "y" [] c = "Z" -> "z" [] OTHER -> c

Lower(name) == [i \in DOMAIN name |-> LowerChar(name[i])]

\* ', '.join(names): the names separated by the unit ", "
RECURSIVE Join(_)
Join(names) ==
    IF names = <<>> THEN <<>>
    ELSE IF Len(names) = 1 THEN names[1]
    ELSE names[1] \o <<", ">> \o Join(Tail(names))

\* ------------------------------------------------------- the syntax tree
\* ast.arguments: the five parameter groups of a def
Arguments(posonly, args, vararg, kwonly, kwarg) ==
    [posonlyargs |-> posonly, args |-> args, vararg |-> vararg,
     kwonlyargs |-> kwonly, kwarg |-> kwarg]

NoArgs == Arguments(<<>>, <<>>, <<>>, <<>>, <<>>)

\* a statement node: its class, its name, its parameters, its nested body
Node(kind, name, args, body) ==
    [kind |-> kind, name |-> name, args |-> args, body |-> body]

n_add      == <<"a", "d", "d">>
n_Sum      == <<"S", "u", "m">>
n_sub      == <<"s", "u", "b">>
n_DIVIDE   == <<"D", "I", "V", "I", "D", "E">>
n_foo      == <<"f", "o", "o">>
n_soma     == <<"s", "o", "m", "a">>
n_inner    == <<"i", "n">>
n_K        == <<"K">>

InnerDef == Node("FunctionDef", n_inner, NoArgs, <<>>)

\* the statements a source file is made of
TopStmts ==
    { Node("FunctionDef", n_add, Arguments(<<>>, <<"a", "b">>, <<>>, <<>>, <<>>), <<>>),
      Node("FunctionDef", n_Sum, Arguments(<<>>, <<"a", "b">>, <<>>, <<>>, <<>>), <<>>),
      Node("FunctionDef", n_sub, Arguments(<<>>, <<"a", "b">>, <<>>, <<>>, <<>>), <<>>),
      Node("FunctionDef", n_DIVIDE, Arguments(<<>>, <<"a", "b">>, <<>>, <<>>, <<>>),
           <<InnerDef>>),
      Node("FunctionDef", n_foo,
           Arguments(<<"p">>, <<"q">>, <<"r">>, <<"s">>, <<"t">>), <<>>),
      Node("AsyncFunctionDef", n_soma, NoArgs, <<>>),
      Node("ClassDef", n_K, NoArgs,
           <<Node("FunctionDef", n_add, Arguments(<<>>, <<"self">>, <<>>, <<>>, <<>>), <<>>)>>),
      Node("If", <<>>, NoArgs, <<InnerDef>>) }

\* the result of ast.parse(code): a module body, or SyntaxError
Parsed(body) == [ok |-> TRUE, body |-> body]
SyntaxError  == [ok |-> FALSE, body |-> <<>>]

\* ------------------------------------------------------ extract_functions
Signature(node) == [name |-> node.name, args |-> node.args.args]

RECURSIVE extract_loop(_, _)
extract_loop(body, funcs) ==
    IF body = <<>> THEN funcs
    ELSE extract_loop(Tail(body),
                      IF Head(body).kind = "FunctionDef"
                      THEN Append(funcs, Signature(Head(body)))
                      ELSE funcs)

\* a walk that descends into nested bodies (as ast.walk would)
RECURSIVE extract_walk(_, _)
extract_walk(body, funcs) ==
    IF body = <<>> THEN funcs
    ELSE extract_walk(Tail(body),
                      extract_walk(Head(body).body,
                                   IF Head(body).kind = "FunctionDef"
                                   THEN Append(funcs, Signature(Head(body)))
                                   ELSE funcs))

extract_functions_walk(body) == extract_walk(body, <<>>)

extract_functions(body) == extract_loop(body, <<>>)

\* ------------------------------------------------------ sanitize_response
Marker == <<"import ", "pytest">>

MarkerAt(text, i) ==
    /\ i >= 1
    /\ i + Len(Marker) - 1 <= Len(text)
    /\ SubSeq(text, i, i + Len(Marker) - 1) = Marker

\* text.find("import pytest"), 1-based; 0 stands for Python's -1
Find(text) ==
    IF \E i \in 1..Len(text) : MarkerAt(text, i)
    THEN CHOOSE i \in 1..Len(text) :
            MarkerAt(text, i) /\ \A j \in 1..(i - 1) : ~MarkerAt(text, j)
    ELSE 0

\* a sanitizer that also drops the marker it found
sanitize_response_skip(text) ==
    IF Find(text) # 0 THEN SubSeq(text, Find(text) + Len(Marker), Len(text)) ELSE text

sanitize_response(text) ==
    IF Find(text) # 0 THEN SubSeq(text, Find(text), Len(text)) ELSE text

\* ----------------------------------------------------------- build_prompt
FuncNames(funcs) == [i \in DOMAIN funcs |-> funcs[i].name]

\* the prompt names the module, the functions to import and embeds the code
build_prompt(module_name, code, funcs) ==
    [file |-> <<"test_">> \o module_name \o <<".py">>,
     imports |-> <<"from ">> \o module_name \o <<" import ">> \o Join(FuncNames(funcs)),
     module_code |-> code]

\* --------------------------------------------------- generate_basic_tests
AddNames == {<<"a", "d", "d">>, <<"s", "u", "m">>, <<"s", "o", "m", "a">>}
SubNames == {<<"s", "u", "b">>, <<"s", "u", "b", "t", "r", "a", "c", "t">>,
             <<"s", "u", "b", "t", "r", "a", "i">>, <<"m", "e", "n", "o", "s">>}
DivNames == {<<"d", "i", "v">>, <<"d", "i", "v", "i", "d", "e">>,
             <<"d", "i", "v", "i", "s", "i", "o", "n">>}

\* the lines appended for one function, by the name it is matched under
template_lines(key, name) ==
    IF key \in AddNames
    THEN << <<"def test_">> \o name \o <<"_basic():\n    assert ">> \o name
               \o <<"(2, 3) == 5\n\n">> >>
    ELSE IF key \in SubNames
    THEN << <<"def test_">> \o name \o <<"_basic():\n    assert ">> \o name
               \o <<"(5, 2) == 3\n\n">> >>
    ELSE IF key \in DivNames
    THEN << <<"def test_">> \o name \o <<"_success():\n    assert ">> \o name
               \o <<"(6, 2) == 3\n\n">>,
            <<"def test_">> \o name
               \o <<"_by_zero():\n    with pytest.raises(ZeroDivisionError):\n        ">>
               \o name \o <<"(1, 0)\n\n">> >>
    ELSE << <<"def test_">> \o name \o <<"_exists_or_skip():\n">>,
            <<"    try:\n">>,
            <<"        ">> \o name \o <<"()\n">>,
            <<"    except TypeError:\n">>,
            <<"        pytest.skip('Auto-test skipped: function requires arguments')\n\n">> >>

\* the dispatch without str.lower(): a case-sensitive match
function_lines_case_sensitive(name) == template_lines(name, name)

function_lines(name) == template_lines(Lower(name), name)

RECURSIVE tests_loop(_, _)
tests_loop(funcs, lines) ==
    IF funcs = <<>> THEN lines
    ELSE tests_loop(Tail(funcs), lines \o function_lines(Head(funcs).name))

\* the list `lines` that generate_basic_tests builds before it opens out_path
basic_test_lines(module_name, funcs) ==
    tests_loop(funcs,
               << <<"import ", "pytest", "\n">>,
                  <<"from ">> \o module_name \o <<" import ">>
                     \o Join(FuncNames(funcs)) \o <<"\n\n">> >>)

\* ------------------------------------------------------------ the driver
VARIABLES
    pc,           \* position of main
    ENDPOINT,     \* os.getenv("AZURE_OPENAI_ENDPOINT")
    API_KEY,      \* os.getenv("AZURE_OPENAI_KEY")
    DEPLOYMENT,   \* os.getenv("AZURE_OPENAI_DEPLOYMENT")
    code,         \* the text read from input_path, as ast.parse sees it
    module_name,  \* base name of input_path without extension
    funcs,        \* result of extract_functions
    prompt,       \* result of build_prompt
    raw,          \* content returned by call_azure_openai
    response,     \* response after sanitize_response
    e,            \* the exception caught at line 122, "none" if none
    lines,        \* the list built by generate_basic_tests
    testsDir,     \* TRUE iff directory tests/ exists
    file,         \* content of tests/test_<module_name>.py, NoFile if absent
    mkdirs,       \* calls of os.makedirs
    opens,        \* successful open(out_path, "w") calls
    writes,       \* write / writelines calls on the output file
    netCalls,     \* requests.post calls
    console,      \* messages printed
    exitCode      \* exit status of the process, -1 while running

vars == <<pc, ENDPOINT, API_KEY, DEPLOYMENT, code, module_name, funcs, prompt,
          raw, response, e, lines, testsDir, file, mkdirs, opens, writes,
          netCalls, console, exitCode>>

Unset == "<unset>"
EnvValues == {Unset, "", "configured"}

NoFile == <<"<no file>">>
NotAString == <<"<not a str>">>
OldContent == <<"import ", "pytest", "\n", "old">>

ModuleNames == {<<"m", "f">>}

\* response texts of the remote service
TextUnits == {"import ", "pytest", "\n", "x"}
Responses == SeqsUpTo(TextUnits, MaxText)

\* source files of the driver runs
SampleSources ==
    { SyntaxError,
      Parsed(<<>>),
      Parsed(<<Node("If", <<>>, NoArgs, <<InnerDef>>)>>),
      Parsed(<<Node("FunctionDef", n_add,
                    Arguments(<<>>, <<"a", "b">>, <<>>, <<>>, <<>>), <<>>),
               Node("FunctionDef", n_DIVIDE,
                    Arguments(<<>>, <<"a", "b">>, <<>>, <<>>, <<>>), <<InnerDef>>)>>),
      Parsed(<<Node("FunctionDef", n_foo,
                    Arguments(<<"p">>, <<"q">>, <<"r">>, <<"s">>, <<"t">>), <<>>)>>) }

\* source files over the whole statement set
AllSources == {SyntaxError} \cup {Parsed(b) : b \in SeqsUpTo(TopStmts, MaxBody)}

\* a test that takes the empty string for a value
Truthy_not_none(v) == v # Unset

\* truth value of an environment value: None and "" are false
Truthy(v) == v # Unset /\ v # ""

RemoteConfigured == Truthy(ENDPOINT) /\ Truthy(API_KEY) /\ Truthy(DEPLOYMENT)

StartState ==
    /\ pc = "Loading"
    /\ code = SyntaxError
    /\ module_name = <<>>
    /\ funcs = <<>>
    /\ prompt = build_prompt(<<>>, SyntaxError, <<>>)
    /\ raw = <<>>
    /\ response = <<>>
    /\ e = "none"
    /\ lines = <<>>
    /\ mkdirs = 0
    /\ opens = 0
    /\ writes = 0
    /\ netCalls = 0
    /\ console = <<>>
    /\ exitCode = -1

\* the file system before the run: no tests/ directory, or one that holds an
\* output file of an earlier run
FreshOrOld ==
    \/ testsDir = FALSE /\ file = NoFile
    \/ testsDir = TRUE /\ file = OldContent

Init ==
    /\ ENDPOINT \in EnvValues
    /\ API_KEY \in EnvValues
    /\ DEPLOYMENT \in EnvValues
    /\ FreshOrOld
    /\ StartState

\* the runs without remote configuration
InitFn ==
    /\ ENDPOINT = Unset
    /\ API_KEY = Unset
    /\ DEPLOYMENT = Unset
    /\ FreshOrOld
    /\ StartState

env == <<ENDPOINT, API_KEY, DEPLOYMENT>>
fs == <<testsDir, file, mkdirs, opens, writes>>

\* sys.exit(1), or an exception nobody catches: the process ends with status 1
Fail(msgs) ==
    /\ pc' = "Failed"
    /\ exitCode' = 1
    /\ console' = console \o msgs

\* lines 91-99: argument check, read of the input file, module name
Loading(Sources) ==
    /\ pc = "Loading"
    /\ \E argc \in 1..2, readable \in BOOLEAN :
         IF argc < 2
         THEN /\ Fail(<<"Uso">>)
              /\ UNCHANGED <<code, module_name>>
         ELSE IF ~readable
         THEN /\ Fail(<<>>)
              /\ UNCHANGED <<code, module_name>>
         ELSE /\ code' \in Sources
              /\ module_name' \in ModuleNames
              /\ pc' = "Extracting"
              /\ UNCHANGED <<console, exitCode>>
    /\ UNCHANGED <<env, funcs, prompt, raw, response, e, lines, fs, netCalls>>

\* lines 100-103 with the directory created before the signatures are looked at
Extracting_mkdir_first ==
    /\ pc = "Extracting"
    /\ IF ~code.ok
       THEN /\ Fail(<<>>)
            /\ UNCHANGED <<funcs, testsDir, mkdirs>>
       ELSE /\ funcs' = extract_functions(code.body)
            /\ testsDir' = TRUE
            /\ mkdirs' = mkdirs + 1
            /\ IF funcs' = <<>>
               THEN Fail(<<"Nenhuma funcao encontrada">>)
               ELSE /\ pc' = "Preparing"
                    /\ UNCHANGED <<console, exitCode>>
    /\ UNCHANGED <<env, code, module_name, prompt, raw, response, e, lines,
                   file, opens, writes, netCalls>>

\* lines 100-103: extract the signatures, stop when there is none
Extracting ==
    /\ pc = "Extracting"
    /\ IF ~code.ok
       THEN /\ Fail(<<>>)
            /\ UNCHANGED funcs
       ELSE /\ funcs' = extract_functions(code.body)
            /\ IF funcs' = <<>>
               THEN Fail(<<"Nenhuma funcao encontrada">>)
               ELSE /\ pc' = "Preparing"
                    /\ UNCHANGED <<console, exitCode>>
    /\ UNCHANGED <<env, code, module_name, prompt, raw, response, e, lines, fs,
                   netCalls>>

\* lines 105-115: create tests/, choose the path, build the prompt
Preparing ==
    /\ pc = "Preparing"
    /\ mkdirs' = mkdirs + 1
    /\ \E made \in BOOLEAN :
         IF ~made
         THEN /\ Fail(<<>>)
              /\ UNCHANGED <<testsDir, prompt>>
         ELSE /\ testsDir' = TRUE
              /\ UNCHANGED exitCode
              /\ IF ~RemoteConfigured
                 THEN /\ pc' = "Fallback"
                      /\ console' = Append(console, "Variaveis AZURE nao configuradas")
                      /\ UNCHANGED prompt
                 ELSE /\ pc' = "RemoteGenerating"
                      /\ prompt' = build_prompt(module_name, code, funcs)
                      /\ console' = Append(console, "Chamando Azure OpenAI")
    /\ UNCHANGED <<env, code, module_name, funcs, raw, response, e, lines, file,
                   opens, writes, netCalls>>

\* lines 122-124: the handler of the try block
Caught(exc) ==
    /\ e' = exc
    /\ pc' = "Fallback"
    /\ console' = console \o <<"Erro ao chamar Azure OpenAI", "Gerando testes basicos">>

RemoteErrors == {"ConnectionError", "HTTPError", "JSONDecodeError", "KeyError"}

\* line 117 without the try block around it
RemoteGenerating_uncaught ==
    /\ pc = "RemoteGenerating"
    /\ netCalls' = netCalls + 1
    /\ \/ /\ \E exc \in RemoteErrors : e' = exc
          /\ Fail(<<>>)
          /\ UNCHANGED raw
       \/ /\ raw' \in Responses \cup {NotAString}
          /\ pc' = "Sanitizing"
          /\ UNCHANGED <<e, console, exitCode>>
    /\ UNCHANGED <<env, code, module_name, funcs, prompt, response, lines, fs>>

\* line 117: call_azure_openai (lines 44-59) inside the try block
RemoteGenerating ==
    /\ pc = "RemoteGenerating"
    /\ netCalls' = netCalls + 1
    /\ \/ /\ \E exc \in RemoteErrors : Caught(exc)
          /\ UNCHANGED raw
       \/ /\ raw' \in Responses \cup {NotAString}
          /\ pc' = "Sanitizing"
          /\ UNCHANGED <<e, console>>
    /\ UNCHANGED <<env, code, module_name, funcs, prompt, response, lines, fs,
                   exitCode>>

\* line 118: sanitize_response inside the try block
Sanitizing ==
    /\ pc = "Sanitizing"
    /\ IF raw = NotAString
       THEN /\ Caught("AttributeError")
            /\ UNCHANGED response
       ELSE /\ response' = sanitize_response(raw)
            /\ pc' = "Writing"
            /\ UNCHANGED <<e, console>>
    /\ UNCHANGED <<env, code, module_name, funcs, prompt, raw, lines, fs,
                   netCalls, exitCode>>

\* what a write that fails leaves in a file opened with mode "w"
PartialWrites(content) == {SubSeq(content, 1, k) : k \in 0..(Len(content) - 1)} \cup {<<>>}

\* lines 119-120: open out_path for writing and write the response
Writing ==
    /\ pc = "Writing"
    /\ \/ /\ Caught("OSError")
          /\ UNCHANGED <<file, opens, writes>>
       \/ /\ opens' = opens + 1
          /\ writes' = writes + 1
          /\ file' \in PartialWrites(response)
          /\ Caught("OSError")
       \/ /\ opens' = opens + 1
          /\ writes' = writes + 1
          /\ file' = response
          /\ pc' = "Reporting"
          /\ UNCHANGED <<e, console>>
    /\ UNCHANGED <<env, code, module_name, funcs, prompt, raw, response, lines,
                   testsDir, mkdirs, netCalls, exitCode>>

\* a generator that opens out_path in append mode
Fallback_append ==
    /\ pc = "Fallback"
    /\ lines' = basic_test_lines(module_name, funcs)
    /\ \/ /\ Fail(<<>>)
          /\ UNCHANGED <<file, opens, writes>>
       \/ /\ opens' = opens + 1
          /\ writes' = writes + 1
          /\ file' \in {(IF file = NoFile THEN <<>> ELSE file) \o w :
                           w \in PartialWrites(Concat(lines'))}
          /\ Fail(<<>>)
       \/ /\ opens' = opens + 1
          /\ writes' = writes + 1
          /\ file' = (IF file = NoFile THEN <<>> ELSE file) \o Concat(lines')
          /\ pc' = "Reporting"
          /\ UNCHANGED <<console, exitCode>>
    /\ UNCHANGED <<env, code, module_name, funcs, prompt, raw, response, e,
                   testsDir, mkdirs, netCalls>>

\* a generator that only builds the lines and leaves the write to its caller
Fallback_pure ==
    /\ pc = "Fallback"
    /\ lines' = basic_test_lines(module_name, funcs)
    /\ pc' = "Reporting"
    /\ UNCHANGED <<env, code, module_name, funcs, prompt, raw, response, e, fs,
                   netCalls, console, exitCode>>

\* lines 110 and 125: generate_basic_tests (lines 67-88) builds the lines,
\* opens out_path for writing and writes them; its exceptions are not caught
Fallback ==
    /\ pc = "Fallback"
    /\ lines' = basic_test_lines(module_name, funcs)
    /\ \/ /\ Fail(<<>>)
          /\ UNCHANGED <<file, opens, writes>>
       \/ /\ opens' = opens + 1
          /\ writes' = writes + 1
          /\ file' \in PartialWrites(Concat(lines'))
          /\ Fail(<<>>)
       \/ /\ opens' = opens + 1
          /\ writes' = writes + 1
          /\ file' = Concat(lines')
          /\ pc' = "Reporting"
          /\ UNCHANGED <<console, exitCode>>
    /\ UNCHANGED <<env, code, module_name, funcs, prompt, raw, response, e,
                   testsDir, mkdirs, netCalls>>

\* lines 111-112, 121, 126: report the path and return
Reporting ==
    /\ pc = "Reporting"
    /\ console' = Append(console, "Arquivo de testes gerado")
    /\ pc' = "Done"
    /\ exitCode' = 0
    /\ UNCHANGED <<env, code, module_name, funcs, prompt, raw, response, e,
                   lines, fs, netCalls>>

LoadingSample == Loading(SampleSources)

LoadingAny == Loading(AllSources)

Next ==
    \/ LoadingSample
    \/ Extracting
    \/ Preparing
    \/ RemoteGenerating
    \/ Sanitizing
    \/ Writing
    \/ Fallback
    \/ Reporting

Spec == Init /\ [][Next]_vars

\* the fallback pipeline over every source file
NextFn ==
    \/ LoadingAny
    \/ Extracting
    \/ Preparing
    \/ Fallback
    \/ Reporting

SpecFn == InitFn /\ [][NextFn]_vars

TypeOK ==
    /\ pc \in {"Loading", "Extracting", "Preparing", "RemoteGenerating",
               "Sanitizing", "Writing", "Fallback", "Reporting", "Done", "Failed"}
    /\ exitCode \in {-1, 0, 1}
    /\ netCalls \in 0..1
    /\ opens \in 0..2

\* ------------------------------------------------------------- properties
Present(v) == v \notin {Unset, ""}
AllPresent == Present(ENDPOINT) /\ Present(API_KEY) /\ Present(DEPLOYMENT)

\* the content generate_basic_tests produces for this run's module and signatures
FallbackContent == Concat(basic_test_lines(module_name, funcs))

\* the first line of a content is exactly "import pytest"
FirstLineIsMarker(content) ==
    /\ Len(content) >= Len(Marker)
    /\ SubSeq(content, 1, Len(Marker)) = Marker
    /\ Len(content) > Len(Marker) => content[Len(Marker) + 1] \in {"\n", "\n\n"}

RemoteStates == {"RemoteGenerating", "Sanitizing", "Writing"}

\* C1: in every run that reaches Done, on the remote path as on the fallback
\* path, the first line of the written file is exactly the marker line.
C1_FirstLineIsMarker == pc = "Done" => FirstLineIsMarker(file)

\* C2 as stated: Failed is entered from Loading and Extracting only.
C2_FailedFromLoadingExtractingOnly ==
    [][pc' = "Failed" => pc \in {"Loading", "Extracting"}]_vars

\* C2 as amended: Failed is entered from Loading, Extracting, the creation of
\* tests/ and the fallback generator's own write, and from no step of the remote
\* attempt: every exception of the remote attempt moves the run to Fallback.
C2_RemoteFailuresGoToFallback ==
    [][/\ pc' = "Failed" => pc \in {"Loading", "Extracting", "Preparing", "Fallback"}
       /\ pc \in RemoteStates =>
             /\ pc' \in {"Sanitizing", "Writing", "Reporting", "Fallback"}
             /\ exitCode' = -1
             /\ (e' # e => pc' = "Fallback")]_vars

C2_Witness == pc = "Fallback" /\ e \in RemoteErrors /\ netCalls = 1 /\ exitCode = -1

C4_FailBeforeGeneration ==
    [][(pc \in {"Loading", "Extracting"} /\ pc' = "Failed") =>
          /\ exitCode' = 1
          /\ mkdirs' = 0
          /\ UNCHANGED <<testsDir, file>>
          /\ file' \in {NoFile, OldContent}
          /\ opens' = 0
          /\ writes' = 0
          /\ netCalls' = 0]_vars

C4_Witness ==
    /\ pc = "Failed"
    /\ code.ok
    /\ code.body # <<>>
    /\ funcs = <<>>
    /\ exitCode = 1
    /\ mkdirs = 0
    /\ ~testsDir
    /\ file = NoFile

\* C5: in a single run the output file is opened for writing, and written, at
\* most once.
C5_OutputWrittenAtMostOnce == opens <= 1 /\ writes <= 1

\* C6: when one of the three values is absent (unset or empty) the run issues no
\* network call, never enters the remote path and writes only fallback content;
\* in every run at most one network call is issued.
C6_RemoteOnlyWhenConfigured ==
    /\ netCalls <= 1
    /\ pc \in RemoteStates => AllPresent
    /\ ~AllPresent =>
          /\ netCalls = 0
          /\ opens = 0 => file \in {NoFile, OldContent}
          /\ opens > 0 => IsPrefixOf(file, FallbackContent)
          /\ pc = "Done" => file = FallbackContent

C6_Witness ==
    /\ pc = "Done"
    /\ ENDPOINT = "configured"
    /\ API_KEY = ""
    /\ DEPLOYMENT = "configured"
    /\ netCalls = 0
    /\ file = FallbackContent

\* the test blocks the policy prescribes for one function name
C7_Blocks(name) ==
    LET key == Lower(name)
        def(suffix) == <<"def test_">> \o name \o <<suffix>>
    IN  IF key \in AddNames
        THEN << def("_basic():\n    assert ") \o name \o <<"(2, 3) == 5\n\n">> >>
        ELSE IF key \in SubNames
        THEN << def("_basic():\n    assert ") \o name \o <<"(5, 2) == 3\n\n">> >>
        ELSE IF key \in DivNames
        THEN << def("_success():\n    assert ") \o name \o <<"(6, 2) == 3\n\n">>,
                def("_by_zero():\n    with pytest.raises(ZeroDivisionError):\n        ")
                   \o name \o <<"(1, 0)\n\n">> >>
        ELSE << def("_exists_or_skip():\n"),
                <<"    try:\n">>,
                <<"        ">> \o name \o <<"()\n">>,
                <<"    except TypeError:\n">>,
                <<"        pytest.skip('Auto-test skipped: function requires arguments')\n\n">> >>

C7_TestCount(ls) == Cardinality({i \in DOMAIN ls : ls[i][1] = "def test_"})

C7_DivideCount(fs_) == Cardinality({i \in DOMAIN fs_ : Lower(fs_[i].name) \in DivNames})

\* C7: the fallback lines are the two header lines followed, in signature order,
\* by the blocks of each function (one test for add, subtract and other names,
\* two for divide names), so the number of tests is the number of signatures
\* plus the number of divide-named signatures.
C7_FallbackBlocksInOrder ==
    lines # <<>> =>
        /\ Len(lines) >= 2
        /\ SubSeq(lines, 3, Len(lines)) = Concat([i \in DOMAIN funcs |-> C7_Blocks(funcs[i].name)])
        /\ C7_TestCount(lines) = Len(funcs) + C7_DivideCount(funcs)

C7_Witness ==
    /\ lines # <<>>
    /\ FuncNames(funcs) = <<n_add, n_DIVIDE>>
    /\ C7_TestCount(lines) = 3

\* C8 as stated: the call of generate_basic_tests leaves the file system
\* unchanged.
C8_GeneratorLeavesFileSystem ==
    [][pc = "Fallback" => UNCHANGED <<file, opens, writes>>]_vars

\* C8 as amended: generate_basic_tests itself opens out_path and writes the
\* content it built; the driver's step after it writes nothing.
C8_GeneratorWritesFile ==
    [][/\ (pc = "Fallback" /\ pc' = "Reporting") =>
             /\ opens' = opens + 1
             /\ writes' = writes + 1
             /\ file' = Concat(lines')
       /\ pc = "Reporting" => UNCHANGED <<file, opens, writes>>]_vars

C8_Witness ==
    /\ pc = "Reporting"
    /\ e = "none"
    /\ netCalls = 0
    /\ opens = 1
    /\ file = Concat(lines)

TopLevelDefs(body) == SelectSeq(body, LAMBDA n : n.kind = "FunctionDef")

\* every declared parameter name of a def, in declaration order
AllParameterNames(a) == a.posonlyargs \o a.args \o a.vararg \o a.kwonlyargs \o a.kwarg

Extracted == code.ok /\ pc \notin {"Loading", "Extracting"}

\* C9 as stated: one record per top-level def, in source order, carrying its
\* name and its parameter names; none for a nested or class-scoped def.
C9_RecordsCarryAllParameters ==
    Extracted =>
        LET defs == TopLevelDefs(code.body)
        IN  /\ Len(funcs) = Len(defs)
            /\ \A i \in DOMAIN funcs :
                  /\ funcs[i].name = defs[i].name
                  /\ funcs[i].args = AllParameterNames(defs[i].args)

\* C9 as amended: the same, where the parameter names recorded are those of the
\* positional-or-keyword parameters only.
C9_RecordsOfTopLevelDefs ==
    Extracted =>
        LET defs == TopLevelDefs(code.body)
        IN  /\ Len(funcs) = Len(defs)
            /\ \A i \in DOMAIN funcs :
                  /\ funcs[i].name = defs[i].name
                  /\ funcs[i].args = defs[i].args.args

C9_Witness ==
    /\ Extracted
    /\ Len(funcs) = 1
    /\ \E i \in DOMAIN code.body : code.body[i].kind = "ClassDef"
    /\ \E i \in DOMAIN code.body :
          code.body[i].kind = "FunctionDef" /\ code.body[i].body # <<>>

MarkerCount(text) == Cardinality({i \in 1..Len(text) : MarkerAt(text, i)})

\* C10: the sanitized response is the raw response when the marker is absent,
\* else its suffix from the first occurrence of the marker; when the marker
\* occurs exactly once, sanitizing the result again does not change it.
C10_SanitizeIdempotent ==
    pc = "Writing" =>
        /\ MarkerCount(raw) = 0 => response = raw
        /\ MarkerCount(raw) > 0 =>
              \E k \in 1..Len(raw) :
                 /\ MarkerAt(raw, k)
                 /\ \A j \in 1..(k - 1) : ~MarkerAt(raw, j)
                 /\ response = SubSeq(raw, k, Len(raw))
        /\ MarkerCount(raw) = 1 => sanitize_response(response) = response

C10_Witness ==
    /\ pc = "Writing"
    /\ MarkerCount(raw) = 1
    /\ response # raw
    /\ response # Marker

====
